---- MODULE Spec2Model ----
(***************************************************************************)
(* Conway's Game of Life on a toroidal grid (TLINDEN/testgol).             *)
(*                                                                         *)
(* Two programs share the simulation core:                                 *)
(*   "mesh"   : src/main.go            (vertex/index buffers)              *)
(*   "raster" : src/unnamed/part_000   (RGBA pixel buffer)                 *)
(*                                                                         *)
(* The model follows the Game struct field by field.  One step of the      *)
(* model is either game.Init() or one frame, game.Update().  The rebuild   *)
(* of main's own 200x200 grid is followed separately, one cell of          *)
(* UpdateTriangles per step (SpecTriangles).                               *)
(***************************************************************************)
EXTENDS Integers, Sequences, FiniteSets, TLC

VARIABLES
    variant,   \* which program runs: "mesh" or "raster"
    pc,        \* "new" (struct built by main), "running", "fatal" (Init aborted), "panic" (a frame aborted)
    game,      \* the Game struct
    heap,      \* the Grid objects allocated by NewGrid, by name ("grida", "gridb")
    last,      \* outcome of the latest frame: "none", "paused", "wait", "advance", "abort"
    gen,       \* number of completed generation advances
    seed,      \* the outcome of the rand.Intn draws of Init: the Data seeded into grida
    frames,    \* number of frames since Init or the latest advance that ran unpaused and did not advance
    pressed,   \* whether the space key was just pressed in the latest frame
    cursor     \* the loop position and uint16 cursors of an UpdateTriangles call followed cell by cell

vars == <<variant, pc, game, heap, last, gen, seed, frames, pressed, cursor>>

(***************************************************************************)
(* Bounds of the model                                                     *)
(***************************************************************************)
MaxWidth == 3
MaxHeight == 3
MaxCells == 6
MaxCellsize == 2
MaxTPG == 1
MaxGen == 2
MaxPatternSide == 4

(***************************************************************************)
(* Go arithmetic                                                           *)
(***************************************************************************)
\* uint16 arithmetic wraps modulo 2^16
Uint16Mod == 65536

Uint16(n) == n % Uint16Mod

\* Go's % truncates towards zero (the sign follows the dividend)
GoMod(a, b) ==
    LET ab == IF b < 0 THEN 0 - b ELSE b
    IN  IF a >= 0 THEN a % ab ELSE 0 - ((0 - a) % ab)

\* Go's / truncates towards zero
GoDiv(a, b) ==
    LET aa == IF a < 0 THEN 0 - a ELSE a
        ab == IF b < 0 THEN 0 - b ELSE b
        q  == aa \div ab
    IN  IF (a < 0) = (b < 0) THEN q ELSE 0 - q

\* Index ^ 1 on an int
Xor1(i) == IF i % 2 = 0 THEN i + 1 ELSE i - 1

(***************************************************************************)
(* Grid                                                                    *)
(***************************************************************************)
\* Data as NewGrid leaves it: height rows of width zeroes, indexed [row][col]
ZeroData(width, height) == [y \in 0 .. height - 1 |-> [x \in 0 .. width - 1 |-> 0]]

\* NewGrid: make([][]int64, height) panics for a negative height; with at
\* least one row, make([]int64, width) panics for a negative width, after the
\* outer slice has been allocated.
NewGrid(width, height) ==
    IF height < 0 THEN [ok |-> FALSE, allocated |-> FALSE, Data |-> <<>>]
    ELSE IF height > 0 /\ width < 0
         THEN [ok |-> FALSE, allocated |-> TRUE, Data |-> [y \in 0 .. height - 1 |-> <<>>]]
         ELSE [ok |-> TRUE, allocated |-> TRUE, Data |-> ZeroData(width, height)]

\* The lattices the seeding loop of Init can leave in grida: every cell is
\* set to 1 or left 0, independently (rand.Intn(Density) == 1; Density is 5
\* in the mesh program and 8 in the raster program).
Seeds(width, height) == [0 .. height - 1 -> [0 .. width - 1 -> {0, 1}]]

\* game.Grids[i].Data
GridData(g, h, i) == h[g.Grids[i + 1]]

(***************************************************************************)
(* The simulation core (identical in both programs)                        *)
(***************************************************************************)
\* NeighborReads with nbgX used for the row offset too
NeighborReadsOneOffset(g, x, y) ==
    [k \in 1 .. 9 |->
        LET nbgX == ((k - 1) \div 3) - 1
        IN  << GoMod(y + nbgX + g.Height, g.Height),
               GoMod(x + nbgX + g.Width, g.Width) >>]

\* The cells CountNeighbors reads for (x, y), in loop order (nbgX outer,
\* nbgY inner); each entry is <<row, col>>.
NeighborReads(g, x, y) ==
    [k \in 1 .. 9 |->
        LET nbgX == ((k - 1) \div 3) - 1
            nbgY == ((k - 1) % 3) - 1
        IN  << GoMod(y + nbgY + g.Height, g.Height),
               GoMod(x + nbgX + g.Width, g.Width) >>]

RECURSIVE SumReads(_, _, _)
SumReads(data, reads, k) ==
    IF k = 0 THEN 0
    ELSE SumReads(data, reads, k - 1) + data[reads[k][1]][reads[k][2]]

\* CountNeighbors without its last step: the cell itself stays in the sum
CountNeighborsWithSelf(g, h, x, y) ==
    SumReads(GridData(g, h, g.Index), NeighborReads(g, x, y), 9)

\* sum of the 9 reads, minus the cell itself
CountNeighbors(g, h, x, y) ==
    LET data == GridData(g, h, g.Index)
    IN  SumReads(data, NeighborReads(g, x, y), 9) - data[y][x]

\* CheckRule with the survival test narrowed to three neighbours
CheckRuleSurviveOn3(state, neighbors) ==
    IF state = 0 /\ neighbors = 3 THEN 1
    ELSE IF state = 1 /\ neighbors = 3 THEN 1
    ELSE 0

CheckRule(state, neighbors) ==
    IF state = 0 /\ neighbors = 3 THEN 1
    ELSE IF state = 1 /\ (neighbors = 2 \/ neighbors = 3) THEN 1
    ELSE 0

\* The cell loop of UpdateCells: the Data written into Grids[next].  Every
\* cell is read from Grids[Index], which the loop never writes.
NextData(g, h) ==
    [y \in 0 .. g.Height - 1 |->
        [x \in 0 .. g.Width - 1 |->
            CheckRule(GridData(g, h, g.Index)[y][x], CountNeighbors(g, h, x, y))]]

(***************************************************************************)
(* Mesh program: ClearVertices and UpdateTriangles (src/main.go)           *)
(***************************************************************************)
\* color.RGBA{0, 0, 0, 0xff}
Black == [R |-> 0, G |-> 0, B |-> 0, A |-> 255]

\* ebiten.Vertex{}
ZeroVertex ==
    [DstX |-> 0, DstY |-> 0, SrcX |-> 0, SrcY |-> 0,
     ColorR |-> 0, ColorG |-> 0, ColorB |-> 0, ColorA |-> 0]

\* the vertex UpdateTriangles sets up for a corner at (x, y)
CornerVertex(x, y) ==
    [DstX |-> x, DstY |-> y, SrcX |-> 1, SrcY |-> 1,
     ColorR |-> Black.R, ColorG |-> Black.G, ColorB |-> Black.B, ColorA |-> 1]

\* ClearVertices that leaves the vertices of the previous rebuild in place
ClearVerticesKeep(g) ==
    [g EXCEPT !.Indices = SubSeq(g.Indices, 1, Len(g.Indices))]

\* ClearVertices that resets the slices to length zero instead
ClearVerticesTruncate(g) ==
    [g EXCEPT !.Vertices = <<>>, !.Indices = <<>>]

\* every vertex is overwritten by the zero value; the index slice keeps its length
ClearVertices(g) ==
    [g EXCEPT !.Vertices = [i \in 1 .. Len(g.Vertices) |-> ZeroVertex],
              !.Indices = SubSeq(g.Indices, 1, Len(g.Indices))]

\* The running state of UpdateTriangles: the two buffers, the int cursor idx,
\* the uint16 cursors base and index, and ok = no write was out of range yet.
\* game.Vertices[idx] = ... ; idx++
WriteVertex(st, v) ==
    IF ~st.ok THEN st
    ELSE IF st.idx >= Len(st.V) THEN [st EXCEPT !.ok = FALSE]
    ELSE [st EXCEPT !.V[st.idx + 1] = v, !.idx = st.idx + 1]

\* game.Indices[pos] = val
WriteIndex(st, pos, val) ==
    IF ~st.ok THEN st
    ELSE IF pos >= Len(st.I) THEN [st EXCEPT !.ok = FALSE]
    ELSE [st EXCEPT !.I[pos + 1] = val]

\* corner (i, j) of cell (cellx, celly)
CornerX(g, cellx, i) == (cellx * g.Cellsize) + (i * g.Cellsize) + 1 - (IF i = 1 THEN 1 ELSE 0)
CornerY(g, celly, j) == (celly * g.Cellsize) + (j * g.Cellsize) + 1 - (IF j = 1 THEN 1 ELSE 0)

\* the four vertex writes of an alive cell, in loop order (i outer, j inner)
CellVertices(g, st, cellx, celly) ==
    LET s1 == WriteVertex(st, CornerVertex(CornerX(g, cellx, 0), CornerY(g, celly, 0)))
        s2 == WriteVertex(s1, CornerVertex(CornerX(g, cellx, 0), CornerY(g, celly, 1)))
        s3 == WriteVertex(s2, CornerVertex(CornerX(g, cellx, 1), CornerY(g, celly, 0)))
    IN  WriteVertex(s3, CornerVertex(CornerX(g, cellx, 1), CornerY(g, celly, 1)))

\* index += 6 and base += 4 on the two uint16 cursors
CursorStep(index, base) ==
    [index |-> Uint16(index + 6), base |-> Uint16(base + 4)]

\* the six index writes of a cell, then index += 6 and base += 4 (uint16)
CellIndices(st) ==
    LET s1 == WriteIndex(st, st.index, st.base)
        s2 == WriteIndex(s1, Uint16(st.index + 1), Uint16(st.base + 1))
        s3 == WriteIndex(s2, Uint16(st.index + 2), Uint16(st.base + 3))
        s4 == WriteIndex(s3, Uint16(st.index + 3), st.base)
        s5 == WriteIndex(s4, Uint16(st.index + 4), Uint16(st.base + 2))
        s6 == WriteIndex(s5, Uint16(st.index + 5), Uint16(st.base + 3))
    IN  IF s6.ok
        THEN [s6 EXCEPT !.index = CursorStep(st.index, st.base).index,
                        !.base = CursorStep(st.index, st.base).base]
        ELSE s6

\* the body of the cell loop for cell number k (row-major: celly outer, cellx inner)
TriangleCell(g, data, st, k) ==
    LET cellx == k % g.Width
        celly == k \div g.Width
        sv    == IF data[celly][cellx] = 1 THEN CellVertices(g, st, cellx, celly) ELSE st
    IN  CellIndices(sv)

RECURSIVE TriangleLoop(_, _, _, _)
TriangleLoop(g, data, st, k) ==
    IF k >= g.Width * g.Height \/ ~st.ok THEN st
    ELSE TriangleLoop(g, data, TriangleCell(g, data, st, k), k + 1)

\* UpdateTriangles reads game.Grids[game.Index]; the loops run only over a
\* grid with positive sides
UpdateTriangles(g, h) ==
    LET st0 == [V |-> g.Vertices, I |-> g.Indices, idx |-> 0, base |-> 0, index |-> 0, ok |-> TRUE]
    IN  IF g.Width > 0 /\ g.Height > 0
        THEN TriangleLoop(g, GridData(g, h, g.Index), st0, 0)
        ELSE st0

(***************************************************************************)
(* Raster program: UpdatePixels (src/unnamed/part_000)                     *)
(***************************************************************************)
\* PixelCol with the gridline test on both coordinates at once
PixelColGridAnd(g, data, x, y) ==
    LET gridx == GoDiv(x, g.Cellsize)
        gridy == GoDiv(y, g.Cellsize)
        col   == IF data[gridy][gridx] = 1 THEN 0 ELSE 255
    IN  IF g.Gridlines /\ (GoMod(x, g.Cellsize) = 0 /\ GoMod(y, g.Cellsize) = 0)
        THEN 128 ELSE col

\* the colour byte of screen pixel (x, y)
PixelCol(g, data, x, y) ==
    LET gridx == GoDiv(x, g.Cellsize)
        gridy == GoDiv(y, g.Cellsize)
        col   == IF data[gridy][gridx] = 1 THEN 0 ELSE 255
    IN  IF g.Gridlines /\ (GoMod(x, g.Cellsize) = 0 \/ GoMod(y, g.Cellsize) = 0)
        THEN 128 ELSE col

\* game.Pixels[idx] = col ... game.Pixels[idx+3] = 0xff; st = [P, ok], where
\* ok = no write was out of range yet
WriteBytes(st, idx, col) ==
    IF ~st.ok THEN st
    ELSE IF idx < 0 \/ idx >= Len(st.P) THEN [st EXCEPT !.ok = FALSE]
    ELSE IF idx + 1 >= Len(st.P) THEN [P |-> [st.P EXCEPT ![idx + 1] = col], ok |-> FALSE]
    ELSE IF idx + 2 >= Len(st.P)
         THEN [P |-> [st.P EXCEPT ![idx + 1] = col, ![idx + 2] = col], ok |-> FALSE]
    ELSE IF idx + 3 >= Len(st.P)
         THEN [P |-> [st.P EXCEPT ![idx + 1] = col, ![idx + 2] = col, ![idx + 3] = col],
               ok |-> FALSE]
    ELSE [P |-> [st.P EXCEPT ![idx + 1] = col, ![idx + 2] = col,
                             ![idx + 3] = col, ![idx + 4] = 255],
          ok |-> TRUE]

\* the body of the loops for pixel (x, y): idx = 4 * (x + y*game.ScreenWidth)
WritePixel(g, data, st, x, y) ==
    WriteBytes(st, 4 * (x + y * g.ScreenWidth), PixelCol(g, data, x, y))

\* pixel number k of the loops (y outer, x inner)
RECURSIVE PixelLoop(_, _, _, _)
PixelLoop(g, data, st, k) ==
    IF k >= g.ScreenWidth * g.ScreenHeight \/ ~st.ok THEN st
    ELSE PixelLoop(g, data,
                   WritePixel(g, data, st, k % g.ScreenWidth, k \div g.ScreenWidth),
                   k + 1)

\* UpdatePixels reads game.Grids[game.Index]; the loops run only over a
\* screen with positive sides
UpdatePixels(g, h) ==
    IF g.ScreenWidth > 0 /\ g.ScreenHeight > 0
    THEN PixelLoop(g, GridData(g, h, g.Index), [P |-> g.Pixels, ok |-> TRUE], 0)
    ELSE [P |-> g.Pixels, ok |-> TRUE]

(***************************************************************************)
(* main and Game.Init                                                      *)
(***************************************************************************)
Variants == {"mesh", "raster"}

\* The Game literal of main, with ScreenWidth and ScreenHeight as main
\* computes them; every other field has its zero value.
NewGame(width, height, cellsize, tpg, gridlines) ==
    [Width |-> width, Height |-> height, Cellsize |-> cellsize,
     ScreenWidth |-> width * cellsize, ScreenHeight |-> height * cellsize,
     TPG |-> tpg, Gridlines |-> gridlines,
     Grids |-> <<>>, Index |-> 0, Elapsed |-> 0, Pause |-> FALSE,
     Vertices |-> <<>>, Indices |-> <<>>, Pixels |-> <<>>]

\* ebiten.NewImage panics unless both sides are positive
NewImageOk(width, height) == width > 0 /\ height > 0

\* make([]T, n) panics for a negative n
MakeOk(n) == n >= 0

\* Game.Init of the mesh program, after both grids are in game.Grids:
\* the images, then the vertex and index buffers.
MeshBuffers(g) ==
    LET lenvertices == g.ScreenHeight * g.ScreenWidth
        lenindices  == lenvertices + GoDiv(lenvertices, 2)
    IN  IF ~NewImageOk(g.Cellsize, g.Cellsize) \/ ~NewImageOk(g.ScreenWidth, g.ScreenHeight)
        THEN [ok |-> FALSE, game |-> g]
        ELSE IF ~MakeOk(lenvertices) THEN [ok |-> FALSE, game |-> g]
        ELSE [ok |-> TRUE,
              game |-> [g EXCEPT !.Vertices = [i \in 1 .. lenvertices |-> ZeroVertex],
                                 !.Indices = [i \in 1 .. lenindices |-> 0]]]

\* Game.Init of the raster program, after both grids are in game.Grids:
\* the pixel buffer, then the offscreen image.
RasterBuffers(g) ==
    LET lenpixels == g.ScreenWidth * g.ScreenHeight * 4
    IN  IF ~MakeOk(lenpixels) THEN [ok |-> FALSE, game |-> g]
        ELSE LET g1 == [g EXCEPT !.Pixels = [i \in 1 .. lenpixels |-> 0]]
             IN  [ok |-> NewImageOk(g.ScreenWidth, g.ScreenHeight), game |-> g1]

\* game.Init(): the two NewGrid calls, the seeding of grida, game.Grids, and
\* the output buffers.  A panic on the way leaves what was built so far.
GameInit ==
    /\ pc = "new"
    /\ LET grida == NewGrid(game.Width, game.Height)
           gridb == NewGrid(game.Width, game.Height)
       IN  IF ~grida.ok
           THEN /\ pc' = "fatal"
                /\ heap' = IF grida.allocated THEN [n \in {"grida"} |-> grida.Data] ELSE heap
                /\ UNCHANGED game
           ELSE LET h1  == [n \in {"grida", "gridb"} |->
                               IF n = "grida" THEN seed ELSE gridb.Data]
                    g1  == [game EXCEPT !.Grids = <<"grida", "gridb">>]
                    out == IF variant = "mesh" THEN MeshBuffers(g1) ELSE RasterBuffers(g1)
                IN  /\ heap' = h1
                    /\ game' = out.game
                    /\ pc' = IF out.ok THEN "running" ELSE "fatal"
    /\ UNCHANGED <<variant, last, gen, seed, frames, pressed, cursor>>

(***************************************************************************)
(* One frame: Game.UpdateCells and Game.Update                             *)
(***************************************************************************)
\* the cell loop writing into the active grid (next = Index)
WriteNextSameBuffer(g, h) ==
    [h EXCEPT ![g.Grids[g.Index + 1]] = NextData(g, h)]

\* game.Grids[next].Data = the next generation
WriteNext(g, h) ==
    LET next == Xor1(g.Index)
    IN  [h EXCEPT ![g.Grids[next + 1]] = NextData(g, h)]

\* The advancing path of UpdateCells in the mesh program: g1 is the struct
\* after ClearVertices, h1 the heap after the cell loop, tri the outcome of
\* UpdateTriangles, which runs before Index is switched.
MeshAdvance(g1, h1, tri) ==
    IF ~tri.ok
    THEN [game |-> [g1 EXCEPT !.Vertices = tri.V, !.Indices = tri.I],
          heap |-> h1, ok |-> FALSE, did |-> "abort"]
    ELSE [game |-> [g1 EXCEPT !.Vertices = tri.V, !.Indices = tri.I,
                              !.Index = Xor1(g1.Index), !.Elapsed = 0],
          heap |-> h1, ok |-> TRUE, did |-> "advance"]

MeshCells(g1, h1) == MeshAdvance(g1, h1, UpdateTriangles(g1, h1))

MeshCleared(g1, h) == MeshCells(g1, WriteNext(g1, h))

\* UpdateCells of the mesh program.  Result: the struct, the heap, ok = the
\* call returned (no index out of range), and what the frame did.
MeshUpdateCells(g, h) ==
    IF g.Pause THEN [game |-> g, heap |-> h, ok |-> TRUE, did |-> "paused"]
    ELSE IF g.Elapsed < g.TPG
         THEN [game |-> [g EXCEPT !.Elapsed = g.Elapsed + 1], heap |-> h,
               ok |-> TRUE, did |-> "wait"]
    ELSE MeshCleared(ClearVertices(g), h)

\* The advancing path of UpdateCells in the raster program: h1 is the heap
\* after the cell loop, g1 the struct after Index is switched and Elapsed
\* reset, px the outcome of UpdatePixels.
RasterAdvance(g1, h1, px) ==
    [game |-> [g1 EXCEPT !.Pixels = px.P], heap |-> h1, ok |-> px.ok,
     did |-> IF px.ok THEN "advance" ELSE "abort"]

RasterSwitched(g1, h1) == RasterAdvance(g1, h1, UpdatePixels(g1, h1))

\* UpdateCells of the raster program
RasterUpdateCells(g, h) ==
    IF g.Pause THEN [game |-> g, heap |-> h, ok |-> TRUE, did |-> "paused"]
    ELSE IF g.Elapsed < g.TPG
         THEN [game |-> [g EXCEPT !.Elapsed = g.Elapsed + 1], heap |-> h,
               ok |-> TRUE, did |-> "wait"]
    ELSE RasterSwitched([g EXCEPT !.Index = Xor1(g.Index), !.Elapsed = 0], WriteNext(g, h))

\* UpdateCells without the pause check
UpdateCellsUnpaused(v, g, h) ==
    LET r == IF v = "mesh" THEN MeshUpdateCells([g EXCEPT !.Pause = FALSE], h)
             ELSE RasterUpdateCells([g EXCEPT !.Pause = FALSE], h)
    IN  [r EXCEPT !.game = [r.game EXCEPT !.Pause = g.Pause]]

\* UpdateCells that still ticks when Elapsed = TPG
UpdateCellsLate(v, g, h) ==
    LET late == [g EXCEPT !.TPG = g.TPG + 1]
        r    == IF v = "mesh" THEN MeshUpdateCells(late, h) ELSE RasterUpdateCells(late, h)
    IN  [r EXCEPT !.game.TPG = g.TPG]

\* UpdateCells comparing Elapsed with TPG - 1
UpdateCellsEarly(v, g, h) ==
    LET early == [g EXCEPT !.TPG = g.TPG - 1]
        r     == IF v = "mesh" THEN MeshUpdateCells(early, h) ELSE RasterUpdateCells(early, h)
    IN  [r EXCEPT !.game.TPG = g.TPG]

UpdateCells(v, g, h) ==
    IF v = "mesh" THEN MeshUpdateCells(g, h) ELSE RasterUpdateCells(g, h)

\* game.Update(), given the outcome r of its UpdateCells call: the pause
\* toggle follows if the space key was just pressed in this frame.  A frame
\* that panics ends the program.
Update(key, r) ==
    /\ heap' = r.heap
    /\ last' = r.did
    /\ gen' = IF r.did = "advance" THEN gen + 1 ELSE gen
    /\ IF r.ok
       THEN /\ game' = IF key THEN [r.game EXCEPT !.Pause = ~r.game.Pause] ELSE r.game
            /\ pc' = "running"
       ELSE /\ game' = r.game
            /\ pc' = "panic"
    /\ frames' = IF r.did = "advance" THEN 0 ELSE IF r.did = "wait" THEN frames + 1 ELSE frames
    /\ pressed' = key
    /\ UNCHANGED <<variant, seed, cursor>>

\* one frame of the running program, for either state of the key
Frame ==
    /\ pc = "running"
    /\ gen < MaxGen
    /\ \E r \in {UpdateCells(variant, game, heap)} :
           \E key \in BOOLEAN : Update(key, r)

(***************************************************************************)
(* Specifications                                                          *)
(***************************************************************************)
\* the configurations of main: any sides and cell size from -1 up to the
\* bounds, at most MaxCells cells
Configs ==
    { c \in [Width : (0 - 1) .. MaxWidth, Height : (0 - 1) .. MaxHeight,
             Cellsize : (0 - 1) .. MaxCellsize, TPG : 0 .. MaxTPG, Gridlines : BOOLEAN] :
        c.Width * c.Height <= MaxCells }

\* no UpdateTriangles call is followed cell by cell
NoCursor == [cellx |-> 0, celly |-> 0, index |-> 0, base |-> 0]

InitWith(c, v, data) ==
    /\ variant = v
    /\ pc = "new"
    /\ game = NewGame(c.Width, c.Height, c.Cellsize, c.TPG, c.Gridlines)
    /\ heap = <<>>
    /\ last = "none"
    /\ gen = 0
    /\ seed = data
    /\ frames = 0
    /\ pressed = FALSE
    /\ cursor = NoCursor

\* the mesh program has no Gridlines field
Init ==
    \E c \in Configs, v \in Variants :
        /\ v = "mesh" => ~c.Gridlines
        /\ \E data \in Seeds(c.Width, c.Height) : InitWith(c, v, data)

Next == GameInit \/ Frame

Spec == Init /\ [][Next]_vars

\* Blinker runs: a valid configuration with sides from 3 up, seeded with a
\* horizontal line of three alive cells centred anywhere on the torus
HLine(width, height, cx, cy) ==
    [y \in 0 .. height - 1 |->
        [x \in 0 .. width - 1 |->
            IF y = cy /\ x \in {(cx + width - 1) % width, cx, (cx + 1) % width}
            THEN 1 ELSE 0]]

VLine(width, height, cx, cy) ==
    [y \in 0 .. height - 1 |->
        [x \in 0 .. width - 1 |->
            IF x = cx /\ y \in {(cy + height - 1) % height, cy, (cy + 1) % height}
            THEN 1 ELSE 0]]

BlinkerConfigs ==
    [Width : 3 .. MaxPatternSide, Height : 3 .. MaxPatternSide,
     Cellsize : 1 .. MaxCellsize, TPG : 0 .. MaxTPG, Gridlines : BOOLEAN]

InitBlinker ==
    \E c \in BlinkerConfigs, v \in Variants :
        /\ v = "mesh" => ~c.Gridlines
        /\ \E cx \in 0 .. c.Width - 1, cy \in 0 .. c.Height - 1 :
               InitWith(c, v, HLine(c.Width, c.Height, cx, cy))

SpecBlinker == InitBlinker /\ [][Next]_vars

(***************************************************************************)
(* Vocabulary of the properties                                            *)
(***************************************************************************)
\* the grids exist once Init has stored them
HasGrids == pc \in {"running", "panic"}

\* the buffer game.Index selects, and the other one
Active == GridData(game, heap, game.Index)
Inactive == GridData(game, heap, Xor1(game.Index))

\* the eight offsets around a cell
Offsets == {d \in {0 - 1, 0, 1} \X {0 - 1, 0, 1} : d # <<0, 0>>}

RECURSIVE SumOver(_, _)
SumOver(f, S) ==
    IF S = {} THEN 0
    ELSE LET e == CHOOSE e \in S : TRUE IN f[e] + SumOver(f, S \ {e})

\* the toroidal neighbour count of (x, y) in data: the sum over the eight
\* offsets of the cell at the wrapped position (mathematical modulo)
TorusCount(data, width, height, x, y) ==
    SumOver([d \in Offsets |-> data[(y + d[2]) % height][(x + d[1]) % width]], Offsets)

\* the rule table B3/S23
RuleTable(s, n) == IF <<s, n>> \in {<<0, 3>>, <<1, 2>>, <<1, 3>>} THEN 1 ELSE 0

\* a step of the model that is a frame which advanced the generation
AdvancingFrame == pc = "running" /\ gen' = gen + 1

(***************************************************************************)
(* C1  Generation step.  On every advancing frame, in both programs, every *)
(* cell of the newly active buffer equals the rule applied to that cell's  *)
(* value and its toroidal neighbour count in the buffer that was active    *)
(* before the frame (all cells from the same old generation); the rule     *)
(* yields 1 exactly for (0,3), (1,2), (1,3).                               *)
(***************************************************************************)
C1_GenerationStep ==
    [][AdvancingFrame =>
          \A y \in 0 .. game.Height - 1, x \in 0 .. game.Width - 1 :
              GridData(game', heap', game'.Index)[y][x]
                  = RuleTable(Active[y][x],
                              TorusCount(Active, game.Width, game.Height, x, y))]_vars

\* an advance has produced a birth and a survival at once, from a generation
\* that was neither empty nor full
C1_Witness ==
    /\ pc = "running" /\ last = "advance"
    /\ \E y \in 0 .. game.Height - 1, x \in 0 .. game.Width - 1 :
           Inactive[y][x] = 0 /\ Active[y][x] = 1
    /\ \E y \in 0 .. game.Height - 1, x \in 0 .. game.Width - 1 :
           Inactive[y][x] = 1 /\ Active[y][x] = 1

(***************************************************************************)
(* C2  Toroidal neighbour count.  For every cell (x,y) of the grid,        *)
(* CountNeighbors(x,y) is the sum over the eight offsets (dx,dy) other     *)
(* than (0,0) of active[(y+dy) mod H][(x+dx) mod W], it lies in 0..8, and  *)
(* the reads wrap on every edge: the read at offset (-1,-1) from (0,0) is  *)
(* cell (W-1,H-1).                                                         *)
(***************************************************************************)
C2_ToroidalCount ==
    HasGrids =>
        /\ \A y \in 0 .. game.Height - 1, x \in 0 .. game.Width - 1 :
               /\ CountNeighbors(game, heap, x, y)
                      = TorusCount(Active, game.Width, game.Height, x, y)
               /\ CountNeighbors(game, heap, x, y) \in 0 .. 8
               /\ \A k \in 1 .. 9 :
                      NeighborReads(game, x, y)[k]
                          = << (y + ((k - 1) % 3) - 1) % game.Height,
                               (x + ((k - 1) \div 3) - 1) % game.Width >>
        /\ NeighborReads(game, 0, 0)[1] = <<game.Height - 1, game.Width - 1>>

\* a cell at (0,0) was born from alive cells that are all in the last
\* column, reached only by wrapping around the left edge
C2_Witness ==
    /\ pc = "running" /\ last = "advance" /\ game.Width = 3
    /\ Inactive[game.Height - 1][game.Width - 1] = 1
    /\ \A y \in 0 .. game.Height - 1, x \in 0 .. game.Width - 2 : Inactive[y][x] = 0
    /\ Active[0][0] = 1

(***************************************************************************)
(* C3  Scheduler rule.  A frame advances the generation if and only if,    *)
(* at its start, Pause is false and Elapsed >= TPG; after an advancing     *)
(* frame Elapsed is 0; a non-paused frame with Elapsed < TPG increments    *)
(* Elapsed by exactly 1 and changes neither grid buffer nor Index.         *)
(***************************************************************************)
C3_SchedulerRule ==
    [][pc = "running" =>
          /\ (gen' = gen + 1) <=> (~game.Pause /\ game.Elapsed >= game.TPG)
          /\ (gen' = gen + 1) => game'.Elapsed = 0
          /\ (~game.Pause /\ game.Elapsed < game.TPG) =>
                 /\ game'.Elapsed = game.Elapsed + 1
                 /\ heap' = heap
                 /\ game'.Index = game.Index]_vars

(***************************************************************************)
(* C4  Pause semantics.  A frame that starts with Pause true leaves both   *)
(* grid buffers, Index and the render output (vertices and indices, or     *)
(* pixels) unchanged, element for element; so they keep, over any number   *)
(* of consecutive paused frames, the values of the first paused frame.     *)
(***************************************************************************)
C4_PauseFreezes ==
    [][(pc = "running" /\ game.Pause) =>
          /\ heap' = heap
          /\ game'.Grids = game.Grids
          /\ game'.Index = game.Index
          /\ game'.Vertices = game.Vertices
          /\ game'.Indices = game.Indices
          /\ game'.Pixels = game.Pixels
          /\ pc' = "running"]_vars

\* a paused frame has passed while the timer had elapsed, after a generation
\* had been rendered
C4_Witness ==
    /\ pc = "running" /\ last = "paused" /\ game.Pause
    /\ gen >= 1 /\ game.Elapsed >= game.TPG
    /\ \E y \in 0 .. game.Height - 1, x \in 0 .. game.Width - 1 : Active[y][x] = 1

(***************************************************************************)
(* Vocabulary of the mesh properties                                       *)
(***************************************************************************)
\* the cells of the grid in row-major order, as cell numbers x + y*Width
CellNumbers == [k \in 1 .. game.Width * game.Height |-> k - 1]

\* the alive cells of data, in row-major order
AliveCells(data) ==
    SelectSeq(CellNumbers, LAMBDA k : data[k \div game.Width][k % game.Width] = 1)

\* corner c (0..3) of the cell number k: top left, bottom left, top right,
\* bottom right, inset by one unit on the left and the top
QuadCorner(k, c) ==
    LET cx == k % game.Width
        cy == k \div game.Width
        cs == game.Cellsize
    IN  CornerVertex(IF c \in {0, 1} THEN cx * cs + 1 ELSE (cx + 1) * cs,
                     IF c \in {0, 2} THEN cy * cs + 1 ELSE (cy + 1) * cs)

\* the vertex buffer that encodes the alive cells of data: four corners per
\* alive cell, in row-major order, and zero vertices after them
MeshOf(data) ==
    LET alive == AliveCells(data)
    IN  [i \in 1 .. Len(game.Vertices) |->
            IF i <= 4 * Len(alive)
            THEN QuadCorner(alive[((i - 1) \div 4) + 1], (i - 1) % 4)
            ELSE ZeroVertex]

(***************************************************************************)
(* C5  Rebuild ordering (mesh program).  Within an advancing frame the     *)
(* switch of the active buffer precedes the geometry rebuild: after the    *)
(* frame the vertex buffer encodes the alive cells of the newly active     *)
(* buffer, the generation just computed.                                   *)
(***************************************************************************)
C5_MeshShowsNewGeneration ==
    (variant = "mesh" /\ pc = "running" /\ gen >= 1) => game.Vertices = MeshOf(Active)

(***************************************************************************)
(* C6  Mesh buffer sizing.  After Init the vertex buffer has exactly       *)
(* 4 x (Width x Height) entries and the index buffer exactly               *)
(* 6 x (Width x Height) entries, for every width, height and cell size.    *)
(***************************************************************************)
C6_MeshBufferSizes ==
    (variant = "mesh" /\ pc = "running") =>
        /\ Len(game.Vertices) = 4 * (game.Width * game.Height)
        /\ Len(game.Indices) = 6 * (game.Width * game.Height)

(***************************************************************************)
(* C7  Raster mapping (raster program).  After every advancing frame, for  *)
(* every screen pixel (x,y) the three colour bytes at offset               *)
(* 4*(x + y*ScreenWidth) are 128 if Gridlines is on and x or y is a        *)
(* multiple of Cellsize, otherwise 0 if cell (x div Cellsize, y div        *)
(* Cellsize) of the newly active buffer is alive and 255 if it is dead;    *)
(* the fourth byte is 255; and the pixels cover the whole buffer.          *)
(***************************************************************************)
PixelColour(x, y) ==
    IF game.Gridlines /\ (x % game.Cellsize = 0 \/ y % game.Cellsize = 0) THEN 128
    ELSE IF Active[y \div game.Cellsize][x \div game.Cellsize] = 1 THEN 0
    ELSE 255

C7_RasterMapping ==
    (variant = "raster" /\ pc = "running" /\ gen >= 1) =>
        /\ \A y \in 0 .. game.ScreenHeight - 1, x \in 0 .. game.ScreenWidth - 1 :
               LET off == 4 * (x + y * game.ScreenWidth)
               IN  /\ game.Pixels[off + 1] = PixelColour(x, y)
                   /\ game.Pixels[off + 2] = PixelColour(x, y)
                   /\ game.Pixels[off + 3] = PixelColour(x, y)
                   /\ game.Pixels[off + 4] = 255
        /\ \A p \in 0 .. Len(game.Pixels) - 1 :
               \E y \in 0 .. game.ScreenHeight - 1, x \in 0 .. game.ScreenWidth - 1 :
                   p \div 4 = x + y * game.ScreenWidth

\* a raster frame advanced with gridlines on and cells of two pixels, and
\* the buffer shows all three colours
C7_Witness ==
    /\ variant = "raster" /\ pc = "running" /\ last = "advance"
    /\ game.Gridlines /\ game.Cellsize = 2
    /\ \E p \in 1 .. Len(game.Pixels) : game.Pixels[p] = 128
    /\ \E p \in 1 .. Len(game.Pixels) : game.Pixels[p] = 0
    /\ \E p \in 1 .. Len(game.Pixels) : game.Pixels[p] = 255 /\ p % 4 # 0

(***************************************************************************)
(* C8  Buffer reuse.  After Init no frame (advancing, waiting or paused,   *)
(* with or without a toggle) changes the length of the pixel buffer, which *)
(* is always 4 x ScreenWidth x ScreenHeight in the raster program, of the  *)
(* vertex buffer or of the index buffer, nor the dimensions or the         *)
(* identity of the two grids: Grids[0] and Grids[1] stay the same two      *)
(* lattices.                                                               *)
(***************************************************************************)
DataDims(data) == <<DOMAIN data, {DOMAIN data[y] : y \in DOMAIN data}>>

C8_BufferReuse ==
    [][pc = "running" =>
          /\ Len(game'.Pixels) = Len(game.Pixels)
          /\ variant = "raster" =>
                 Len(game'.Pixels) = 4 * game.ScreenWidth * game.ScreenHeight
          /\ Len(game'.Vertices) = Len(game.Vertices)
          /\ Len(game'.Indices) = Len(game.Indices)
          /\ game'.Grids = game.Grids
          /\ game.Grids[1] # game.Grids[2]
          /\ DOMAIN heap' = DOMAIN heap
          /\ \A n \in DOMAIN heap :
                 /\ DataDims(heap'[n]) = DataDims(heap[n])
                 /\ DOMAIN heap[n] = 0 .. game.Height - 1
                 /\ \A y \in DOMAIN heap[n] : DOMAIN heap[n][y] = 0 .. game.Width - 1]_vars

\* two generations have been rendered into non-empty buffers
C8_Witness ==
    /\ pc = "running" /\ gen = 2 /\ last = "advance"
    /\ Len(game.Vertices) + Len(game.Pixels) > 0

(***************************************************************************)
(* C9  Configuration rejection.  When width, height or cell size is zero   *)
(* or negative, Init ends in a fatal startup error before any grid or      *)
(* output buffer is allocated, and no frame is ever processed.             *)
(***************************************************************************)
BadConfig == game.Width <= 0 \/ game.Height <= 0 \/ game.Cellsize <= 0

C9_ConfigRejected ==
    BadConfig =>
        /\ pc \in {"new", "fatal"}
        /\ last = "none"
        /\ heap = <<>>
        /\ game.Vertices = <<>> /\ game.Indices = <<>> /\ game.Pixels = <<>>

(***************************************************************************)
(* C10  Blinker.  On a torus whose active buffer holds only a horizontal   *)
(* line of three alive cells, after exactly one generation advance the     *)
(* alive cells are the vertical three-cell line through the same centre,   *)
(* and after exactly two advances they are the original horizontal line.   *)
(* As first stated, for every width >= 3 and height >= 3:                  *)
(***************************************************************************)
BlinkerTurns(minside) ==
    (HasGrids /\ game.Width >= minside /\ game.Height >= minside) =>
        \A cx \in 0 .. game.Width - 1, cy \in 0 .. game.Height - 1 :
            seed = HLine(game.Width, game.Height, cx, cy) =>
                /\ gen = 0 => Active = seed
                /\ gen = 1 => Active = VLine(game.Width, game.Height, cx, cy)
                /\ gen = 2 => Active = seed

C10_BlinkerFrom3 == BlinkerTurns(3)

\* C10 as it holds: the same for every width >= 4 and height >= 4.  (On a
\* side of 3 the line closes into a ring around the torus, and the rows or
\* columns next to it are born whole.)
C10_BlinkerFrom4 == BlinkerTurns(4)

\* a blinker that straddles the wrapped edge is back after two advances
C10_Witness ==
    /\ pc = "running" /\ gen = 2 /\ last = "advance"
    /\ game.Width >= 4 /\ game.Height >= 4
    /\ seed = HLine(game.Width, game.Height, 0, 0)
    /\ Active = seed
    /\ Inactive = VLine(game.Width, game.Height, 0, 0)

(***************************************************************************)
(* Block runs                                                              *)
(***************************************************************************)
\* a valid configuration with sides from 4 up, seeded with a 2x2 block whose
\* top-left cell is anywhere on the torus (the block wraps over the edges)
Block(width, height, bx, by) ==
    [y \in 0 .. height - 1 |->
        [x \in 0 .. width - 1 |->
            IF x \in {bx, (bx + 1) % width} /\ y \in {by, (by + 1) % height}
            THEN 1 ELSE 0]]

BlockConfigs ==
    [Width : 4 .. MaxPatternSide, Height : 4 .. MaxPatternSide,
     Cellsize : 1 .. MaxCellsize, TPG : 0 .. MaxTPG, Gridlines : BOOLEAN]

InitBlock ==
    \E c \in BlockConfigs, v \in Variants :
        /\ v = "mesh" => ~c.Gridlines
        /\ \E bx \in 0 .. c.Width - 1, by \in 0 .. c.Height - 1 :
               InitWith(c, v, Block(c.Width, c.Height, bx, by))

SpecBlock == InitBlock /\ [][Next]_vars

\* C11: on a grid with width >= 4 and height >= 4 whose only alive cells are
\* a 2x2 block, at any position, the active buffer equals the initial
\* contents after any number of generation advances
C11_BlockStill ==
    (HasGrids /\ game.Width >= 4 /\ game.Height >= 4) => Active = seed

\* two advances done on a block that straddles both wrapped edges
C11_Witness ==
    /\ pc = "running" /\ gen = 2 /\ last = "advance"
    /\ seed = Block(game.Width, game.Height, game.Width - 1, game.Height - 1)
    /\ Active[0][0] = 1 /\ Active[game.Height - 1][game.Width - 1] = 1

(***************************************************************************)
(* The two programs side by side                                           *)
(***************************************************************************)
\* the simulation state a frame leaves behind, and whether the frame returned
SimOutcome(r) ==
    [ok      |-> r.ok,
     data    |-> GridData(r.game, r.heap, r.game.Index),
     Index   |-> r.game.Index,
     Elapsed |-> r.game.Elapsed,
     Pause   |-> r.game.Pause]

\* the Game of the other program in the same simulation state: the same
\* grids, Index, Elapsed, Pause and TPG, with that program's own buffers
MeshTwin == IF variant = "mesh" THEN game ELSE MeshBuffers(game).game
RasterTwin(gridlines) ==
    IF variant = "raster" THEN [game EXCEPT !.Gridlines = gridlines]
    ELSE RasterBuffers([game EXCEPT !.Gridlines = gridlines]).game

\* C12: from the same simulation state the mesh program and the raster
\* program, with Gridlines on or off, leave the same active buffer, Index,
\* Elapsed and Pause behind after the frame
C12_RendererIndependence ==
    pc = "running" =>
        \A gridlines \in BOOLEAN :
            SimOutcome(MeshUpdateCells(MeshTwin, heap))
                = SimOutcome(RasterUpdateCells(RasterTwin(gridlines), heap))

(***************************************************************************)
(* Generation period                                                       *)
(***************************************************************************)
\* the number of unpaused frames from the previous advancing frame (or from
\* Init) up to and including the frame that advances now
FramesToAdvance == frames + 1

\* C13 as stated: with TPG >= 1 every advancing frame is the TPG-th unpaused
\* frame after the previous advancing frame, and the first advance is on
\* frame number TPG
C13_PeriodIsTPG ==
    [][(AdvancingFrame /\ game.TPG >= 1) => FramesToAdvance = game.TPG]_vars

\* C13 amended: with TPG >= 1 every advancing frame is the (TPG+1)-th
\* unpaused frame after the previous advancing frame: TPG frames tick
\* Elapsed and the next one advances; the first advance is on frame TPG + 1
C13_PeriodIsTPGPlus1 ==
    [][(AdvancingFrame /\ game.TPG >= 1) => FramesToAdvance = game.TPG + 1]_vars

\* a second advance has followed the first with TPG >= 1
C13_Witness ==
    /\ pc = "running" /\ last = "advance" /\ gen = 2
    /\ game.TPG >= 1 /\ frames = 0 /\ game.Elapsed = 0

(***************************************************************************)
(* Double buffering                                                        *)
(***************************************************************************)
\* C14: a frame never writes the buffer that is active when it starts and
\* keeps the two Grid objects in place; an advancing frame toggles Index
\* between 0 and 1, so that the old active buffer becomes the inactive one
\* holding the previous generation; a frame that does not advance leaves
\* Index alone
C14_DoubleBuffer ==
    [][pc = "running" =>
          /\ game'.Grids = game.Grids
          /\ DOMAIN heap' = DOMAIN heap
          /\ heap'[game.Grids[game.Index + 1]] = heap[game.Grids[game.Index + 1]]
          /\ (gen' = gen + 1 =>
                 /\ game'.Index = Xor1(game.Index)
                 /\ game'.Index \in {0, 1}
                 /\ GridData(game', heap', Xor1(game'.Index)) = Active)
          /\ (gen' = gen => game'.Index = game.Index)]_vars

\* two advances done, Index back at 0, and the generation before the active
\* one differs from it
C14_Witness ==
    /\ pc = "running" /\ last = "advance" /\ gen = 2
    /\ game.Index = 0
    /\ Inactive # Active
    /\ Active # seed

(***************************************************************************)
(* Mesh content                                                            *)
(***************************************************************************)
\* the vertices the six indices of the cell number k refer to
QuadVertices(k) ==
    {game.Vertices[game.Indices[6 * k + j] + 1] : j \in 1 .. 6}

\* C15: in the mesh program after every rebuild, with A the number of alive
\* cells of the buffer UpdateTriangles read (the inactive one once Index has
\* flipped), the vertex slots 4k..4k+3 for k < A hold the four corners of
\* the k-th alive cell in row-major order, every slot from 4A on is the zero
\* vertex, and the quads of the index slots from A on refer to zero vertices
\* only
C15_MeshContent ==
    (variant = "mesh" /\ pc = "running" /\ gen >= 1) =>
        /\ game.Vertices = MeshOf(Inactive)
        /\ \A i \in 4 * Len(AliveCells(Inactive)) + 1 .. Len(game.Vertices) :
               game.Vertices[i] = ZeroVertex
        /\ \A k \in Len(AliveCells(Inactive)) .. game.Width * game.Height - 1 :
               QuadVertices(k) = {ZeroVertex}

\* the second rebuild read fewer alive cells than the first one wrote
C15_Witness ==
    /\ variant = "mesh" /\ pc = "running" /\ gen = 2 /\ last = "advance"
    /\ Len(AliveCells(Inactive)) >= 1
    /\ Len(AliveCells(Inactive)) < Len(AliveCells(seed))
    /\ game.Vertices[4 * Len(AliveCells(Inactive))] # ZeroVertex
    /\ game.Vertices[4 * Len(AliveCells(Inactive)) + 1] = ZeroVertex

(***************************************************************************)
(* The rebuild of main's own grid, cell by cell                            *)
(***************************************************************************)
\* the Game literal of main
DefaultSize == 200
DefaultCellsize == 4
DefaultTPG == 5

\* UpdateTriangles is entered with both cursors at 0.  Only the loop
\* position and the cursors are followed: in this configuration Init
\* allocates 960000 index slots and 640000 vertices, more than a uint16
\* position or four vertices per cell can reach, so no write is out of range.
InitTriangles ==
    /\ variant = "mesh"
    /\ pc = "triangles"
    /\ game = NewGame(DefaultSize, DefaultSize, DefaultCellsize, DefaultTPG, FALSE)
    /\ heap = <<>>
    /\ last = "none"
    /\ gen = 0
    /\ seed = <<>>
    /\ frames = 0
    /\ pressed = FALSE
    /\ cursor = NoCursor

\* one iteration of the inner loop: the cell (cellx, celly) has its six
\* indices written at the cursor, then the cursors and the loop move on
TriangleStep ==
    /\ pc = "triangles"
    /\ cursor.celly < game.Height
    /\ \E c \in {CursorStep(cursor.index, cursor.base)} :
           cursor' = [cellx |-> (cursor.cellx + 1) % game.Width,
                      celly |-> IF cursor.cellx + 1 = game.Width
                                THEN cursor.celly + 1 ELSE cursor.celly,
                      index |-> c.index,
                      base  |-> c.base]
    /\ UNCHANGED <<variant, pc, game, heap, last, gen, seed, frames, pressed>>

SpecTriangles == InitTriangles /\ [][TriangleStep]_vars

\* the number, in row-major order, of the cell the loop is at
CursorCell == cursor.celly * game.Width + cursor.cellx

\* C16: for every grid size, the default 200x200 included, the cell number k
\* has its six indices written from position 6k on with the values
\* 4k, 4k+1, 4k+3, 4k, 4k+2, 4k+3: the uint16 write cursor and the base
\* offset never wrap
C16_IndexPattern ==
    pc = "triangles" =>
        /\ cursor.index = 6 * CursorCell
        /\ cursor.base = 4 * CursorCell

(***************************************************************************)
(* Uniform runs                                                            *)
(***************************************************************************)
\* a valid configuration with sides from 1 up, seeded all dead or all alive
Uniform(width, height, v) ==
    [y \in 0 .. height - 1 |-> [x \in 0 .. width - 1 |-> v]]

UniformConfigs ==
    [Width : 1 .. MaxPatternSide, Height : 1 .. MaxPatternSide,
     Cellsize : 1 .. MaxCellsize, TPG : 0 .. MaxTPG, Gridlines : BOOLEAN]

InitUniform ==
    \E c \in UniformConfigs, v \in Variants :
        /\ v = "mesh" => ~c.Gridlines
        /\ \E s \in {0, 1} : InitWith(c, v, Uniform(c.Width, c.Height, s))

SpecUniform == InitUniform /\ [][Next]_vars

\* the 8 positions CountNeighbors reads for (x, y) besides the read at
\* offset (0, 0), which is the fifth of the nine
OtherReads == (1 .. 9) \ {5}

\* the 8 positions are pairwise distinct, none is the cell itself, and the
\* count is the number of alive cells among them
EightDistinct(x, y) ==
    LET reads == NeighborReads(game, x, y)
    IN  /\ \A i \in OtherReads : reads[i] # <<y, x>>
        /\ \A i, j \in OtherReads : i # j => reads[i] # reads[j]
        /\ CountNeighbors(game, heap, x, y)
               = Cardinality({r \in {reads[i] : i \in OtherReads} : Active[r[1]][r[2]] = 1})

EightDistinctFrom(minside) ==
    (HasGrids /\ game.Width >= minside /\ game.Height >= minside) =>
        \A y \in 0 .. game.Height - 1, x \in 0 .. game.Width - 1 : EightDistinct(x, y)

\* C17 as stated: on every grid with width >= 1 and height >= 1 the 8
\* positions CountNeighbors reads besides the cell are pairwise distinct and
\* none is the cell, so no cell is counted twice and the cell not at all
C17_DistinctFrom1 == EightDistinctFrom(1)

\* C17 amended: the same for every grid with width >= 3 and height >= 3
C17_DistinctFrom3 == EightDistinctFrom(3)

\* a 3x3 grid seeded all alive has advanced: every cell counted its 8
\* distinct neighbours and died
C17_Witness ==
    /\ pc = "running" /\ last = "advance" /\ gen = 1
    /\ game.Width = 3 /\ game.Height = 3
    /\ seed = Uniform(3, 3, 1)
    /\ Inactive = seed
    /\ Active = Uniform(3, 3, 0)

(***************************************************************************)
(* State invariant                                                         *)
(***************************************************************************)
\* the buffer number i has Height rows of Width cells, each 0 or 1
WellFormedBuffer(i) ==
    LET data == GridData(game, heap, i)
    IN  /\ DOMAIN data = 0 .. game.Height - 1
        /\ \A y \in DOMAIN data :
               /\ DOMAIN data[y] = 0 .. game.Width - 1
               /\ \A x \in DOMAIN data[y] : data[y][x] \in {0, 1}

\* C18: in every state after Init, with TPG >= 0, game.Grids holds two
\* buffers of Width x Height cells, every cell of both is 0 or 1, Index is
\* 0 or 1 and 0 <= Elapsed <= TPG
C18_StateInvariant ==
    (HasGrids /\ game.TPG >= 0) =>
        /\ Len(game.Grids) = 2
        /\ WellFormedBuffer(0) /\ WellFormedBuffer(1)
        /\ game.Index \in {0, 1}
        /\ 0 <= game.Elapsed /\ game.Elapsed <= game.TPG

\* after an advance Index is 1, Elapsed has climbed to TPG >= 1 again, and
\* an alive and a dead cell are present
C18_Witness ==
    /\ pc = "running" /\ gen = 1 /\ last = "wait"
    /\ game.TPG >= 1 /\ game.Elapsed = game.TPG
    /\ game.Index = 1
    /\ \E y \in 0 .. game.Height - 1, x \in 0 .. game.Width - 1 :
           Active[y][x] = 1 /\ Inactive[y][x] = 0

(***************************************************************************)
(* Range of the mesh rebuild's writes                                      *)
(***************************************************************************)
\* C19: in the mesh program, for every configuration with width, height and
\* cell size >= 1 and every grid content, each write of UpdateTriangles is
\* below the length Init allocated, so no frame aborts
C19_NoOutOfRangeWrite ==
    (variant = "mesh" /\ game.Width >= 1 /\ game.Height >= 1 /\ game.Cellsize >= 1) =>
        pc # "panic" /\ last # "abort"

(***************************************************************************)
(* Pause toggle                                                            *)
(***************************************************************************)
\* the frame of this step performs its simulation step: a tick of Elapsed or
\* a generation advance
SimulationStep ==
    \/ gen' = gen + 1 /\ game'.Index = Xor1(game.Index) /\ game'.Elapsed = 0
    \/ gen' = gen /\ game'.Elapsed = game.Elapsed + 1 /\ game'.Index = game.Index /\ heap' = heap

\* the frame of this step leaves the simulation as it was
NoSimulationStep ==
    /\ gen' = gen /\ heap' = heap
    /\ game'.Index = game.Index /\ game'.Elapsed = game.Elapsed

\* C20: Pause flips on exactly the frames in which the key was just pressed,
\* after the frame's simulation step: a frame that starts running performs
\* its tick or advance even when the key asks for a pause, and a frame that
\* starts paused performs no simulation step even when the key asks to
\* resume, so Elapsed keeps its value across a pause
C20_ToggleOrdering ==
    [][pc = "running" =>
          /\ (game'.Pause # game.Pause) <=> pressed'
          /\ ~game.Pause => SimulationStep
          /\ game.Pause => NoSimulationStep]_vars

====
